---- MODULE Spec2Model ----
(***************************************************************************)
(* NVTX range manager (NvtxRangeManager): the persisted Range Set, the     *)
(* handler of document-change events that keeps the ranges anchored, and   *)
(* the adjustment rules it applies to every range of the edited file.      *)
(*                                                                         *)
(* Line numbers of a stored range are 1-indexed; the editor's positions    *)
(* (change.range, document.lineAt) are 0-indexed.  A line of text is a     *)
(* sequence of one-character strings: " " is whitespace, "x" stands for    *)
(* any non-whitespace character and "\n" is the newline of inserted text.  *)
(* An optional number (endLine?: number, endLineDelta: number | null) is a *)
(* sequence of length 0 (undefined / null) or 1.                           *)
(***************************************************************************)
EXTENDS Integers, Sequences, FiniteSets, TLC

VARIABLES
    lineCount,   \* number of lines of the active editor's document
    file,        \* the persisted Range Set: content of .vscode/nvtx_ranges.json
    handlers,    \* change-event handlers suspended at an await
    lines,       \* text of that document, where the whole text is kept
    last,        \* history: the most recent run of the change handler
    burst,       \* history: the change events that overlapped, and the
                 \* Range Set persisted when the first of them arrived
    workspace,   \* whether a workspace folder is open
    disk,        \* what the backing file holds: "array" when it is the JSON
                 \* of the Range Set `file`, else the kind of its content
    now,         \* the clock: Date.now()
    op,          \* history: the most recent operation of the store
    retired,     \* history: the ids createRange gave to ranges that were
                 \* deleted since
    writable     \* whether the file system accepts a write of the backing file

editorVars == <<lineCount, lines, handlers, last, burst>>
storeVars == <<workspace, disk, now, op, retired, writable>>
vars == <<lineCount, lines, file, handlers, last, burst,
          workspace, disk, now, op, retired, writable>>

(***************************************************************************)
(* Bounds of the model.                                                    *)
(***************************************************************************)
MaxLines == 6

\* Lines of the document while change events overlap, and the number of
\* change events that overlap.
MaxConcLines == 3
MaxOverlap == 2

\* Lines of the document whose whole text is kept.
MaxBatchLines == 2

\* Texts a line of the document may hold before an edit.
LineTexts == { <<>>, <<" ", "x">>, <<"x", " ">> }

\* Texts of the line that follows an edit's end line.
NextTexts == { <<>>, <<"x">> }

\* Texts an edit may insert.
Texts == { <<>>, <<"x">>, <<"\n">>, <<"\n", "x">>, <<"\n", "\n">> }

\* What remains of the edit's end line after its end column, for an edit
\* that removes lines.
Tails == { <<>>, <<"x">> }

\* Where the whole text is kept a line is blank or reads "x"; the edits are
\* those that leave such a document, inserting one of these texts.
BatchLineTexts == { <<>>, <<"x">> }
BatchTexts == { <<>>, <<"x">>, <<"\n">> }

ActiveFile == "a.py"
OtherFile == "b.py"

(***************************************************************************)
(* JavaScript values and string functions used by the manager.             *)
(***************************************************************************)
Undefined == <<>>
Some(n) == <<n>>

\* Truthiness of an optional number: undefined and 0 are falsy.
Truthy(v) == v /= <<>> /\ v[1] /= 0

IsWhitespace(c) == c \in {" ", "\n"}

\* String.prototype.search(/\S/): index of the first non-whitespace
\* character (0-indexed), -1 when there is none.
SearchNonWhitespace(s) ==
    LET hits == {i \in 1..Len(s) : ~IsWhitespace(s[i])}
    IN  IF hits = {} THEN -1
        ELSE (CHOOSE i \in hits : \A j \in hits : i <= j) - 1

\* s.trimEnd().length
TrimEndLength(s) ==
    LET hits == {i \in 1..Len(s) : ~IsWhitespace(s[i])}
    IN  IF hits = {} THEN 0
        ELSE CHOOSE i \in hits : \A j \in hits : j <= i

\* s.trim().length
TrimLength(s) ==
    LET hits == {i \in 1..Len(s) : ~IsWhitespace(s[i])}
    IN  IF hits = {} THEN 0
        ELSE TrimEndLength(s) - SearchNonWhitespace(s)

\* (text.match(/\n/g) || []).length
CountNewlines(text) == Cardinality({i \in 1..Len(text) : text[i] = "\n"})

\* text.includes('\n')
IncludesNewline(text) == \E i \in 1..Len(text) : text[i] = "\n"

(***************************************************************************)
(* The editor.  An edit replaces the text from (line, character) to the    *)
(* end position by `text`.  Of the document only the lines the handler can *)
(* read are kept: the edit's start line and the line after it, as they are *)
(* once the edit is applied (the change event is delivered after the       *)
(* document has changed).  startText is the start line before the edit,    *)
(* tail what followed the edit's end position on its end line, next the    *)
(* line after the end line, if there is one.                               *)
(***************************************************************************)
Prefix(s, n) == SubSeq(s, 1, n)
Suffix(s, n) == SubSeq(s, n + 1, Len(s))

\* The part of text before its first newline, and the part after it.
FirstPiece(text) ==
    IF IncludesNewline(text)
    THEN Prefix(text, (CHOOSE i \in 1..Len(text) :
                          text[i] = "\n" /\ \A j \in 1..(i - 1) : text[j] /= "\n") - 1)
    ELSE text
AfterFirstNewline(text) ==
    Suffix(text, CHOOSE i \in 1..Len(text) :
                     text[i] = "\n" /\ \A j \in 1..(i - 1) : text[j] /= "\n")

\* An edit of the editor: the positions it replaces, the text it inserts
\* and the text of the lines it touches before it is applied.
Edit(line, character, endLine, text, startText, tail, next) ==
    [ line |-> line, character |-> character, endLine |-> endLine, text |-> text,
      startText |-> startText, tail |-> tail, next |-> next ]

\* vscode.TextDocumentContentChangeEvent, as far as the handler reads it.
ChangeOf(e) ==
    [ range |-> [ start |-> [line |-> e.line, character |-> e.character],
                  end |-> [line |-> e.endLine] ],
      text |-> e.text ]

\* Line count of the document once the edit is applied.
LineCountAfter(n, e) == n + CountNewlines(e.text) - (e.endLine - e.line)

\* The start line and the line after it once the edit is applied.
StartLineAfter(e) ==
    Prefix(e.startText, e.character) \o FirstPiece(e.text)
        \o (IF IncludesNewline(e.text) THEN <<>> ELSE e.tail)
NextLineAfter(e) ==
    IF IncludesNewline(e.text)
    THEN <<FirstPiece(AfterFirstNewline(e.text))
             \o (IF CountNewlines(e.text) = 1 THEN e.tail ELSE <<>>)>>
    ELSE e.next

\* vscode.TextDocument after the edit: lineCount and lineAt(i).text.
DocumentAfter(n, e) ==
    [ lineCount |-> LineCountAfter(n, e),
      text |-> [ i \in {e.line} \cup (IF NextLineAfter(e) = <<>> THEN {} ELSE {e.line + 1})
                   |-> IF i = e.line THEN StartLineAfter(e) ELSE NextLineAfter(e)[1] ] ]

LineAt(document, i) == document.text[i]

\* The lines of a text: text.split('\n').
RECURSIVE SplitLines(_)
SplitLines(text) ==
    IF IncludesNewline(text)
    THEN <<FirstPiece(text)>> \o SplitLines(AfterFirstNewline(text))
    ELSE <<text>>

\* The edit of the document `doc` (a sequence of lines) that replaces the
\* text from (line, character) to (endLine, endCharacter) by `text`.
EditAt(doc, line, character, endLine, endCharacter, text) ==
    Edit(line, character, endLine, text, doc[line + 1],
         Suffix(doc[endLine + 1], endCharacter),
         IF endLine + 1 < Len(doc) THEN <<doc[endLine + 2]>> ELSE <<>>)

\* The document once the edit is applied.
Splice(doc, e) ==
    SubSeq(doc, 1, e.line)
        \o SplitLines(Prefix(e.startText, e.character) \o e.text \o e.tail)
        \o SubSeq(doc, e.endLine + 2, Len(doc))

\* vscode.TextDocument of a document whose whole text is kept.
TextDocument(doc) ==
    [ lineCount |-> Len(doc), text |-> [i \in 0..(Len(doc) - 1) |-> doc[i + 1]] ]

(***************************************************************************)
(* The adjustment rules (calculateRangeAdjustment and its helpers).        *)
(***************************************************************************)
Adjustment(m, s, e) == [shouldModify |-> m, startLineDelta |-> s, endLineDelta |-> e]

\* Mutant: the column of the first non-whitespace character itself no
\* longer counts as before the content.
isInsertionBeforeContentStrict(document, lineNumber, insertionColumn) ==
    LET firstNonWhitespace == SearchNonWhitespace(LineAt(document, lineNumber))
    IN  firstNonWhitespace = -1 \/ insertionColumn < firstNonWhitespace

isInsertionBeforeContent(document, lineNumber, insertionColumn) ==
    LET firstNonWhitespace == SearchNonWhitespace(LineAt(document, lineNumber))
    IN  firstNonWhitespace = -1 \/ insertionColumn <= firstNonWhitespace

\* Mutant: the end of the trimmed content counts as inside it.
isInsertionAfterContentInclusive(document, lineNumber, insertionColumn) ==
    LET lastNonWhitespace == TrimEndLength(LineAt(document, lineNumber))
    IN  insertionColumn <= lastNonWhitespace

isInsertionAfterContent(document, lineNumber, insertionColumn) ==
    LET lastNonWhitespace == TrimEndLength(LineAt(document, lineNumber))
    IN  insertionColumn < lastNonWhitespace

\* Mutant: only the content left on the current line is looked at.
shouldExpandForNewlineInsertionCurrentOnly(document, changeStartLine, insertionColumn) ==
    insertionColumn < TrimEndLength(LineAt(document, changeStartLine))

shouldExpandForNewlineInsertion(document, changeStartLine, insertionColumn) ==
    LET currentLineText == LineAt(document, changeStartLine)
        nextLineExists == changeStartLine + 1 < document.lineCount
        nextLineText == IF nextLineExists THEN LineAt(document, changeStartLine + 1) ELSE <<>>
        nextLineHasContent == TrimLength(nextLineText) > 0
        currentLineHasContentAfterInsertion == insertionColumn < TrimEndLength(currentLineText)
    IN  nextLineHasContent \/ currentLineHasContentAfterInsertion

shouldExpandRangeAtEnd(change, document, changeStartLine, insertionColumn, netLineChange) ==
    IF IncludesNewline(change.text) /\ netLineChange > 0
    THEN shouldExpandForNewlineInsertion(document, changeStartLine, insertionColumn)
    ELSE isInsertionAfterContent(document, changeStartLine, insertionColumn)

handleChangeAtRangeStart(change, document, changeStartLine, netLineChange) ==
    LET insertionColumn == change.range.start.character
    IN  IF isInsertionBeforeContent(document, changeStartLine, insertionColumn)
        THEN Adjustment(TRUE, netLineChange, Some(netLineChange))
        ELSE Adjustment(TRUE, 0, Some(netLineChange))

handleChangeAtRangeEnd(change, document, changeStartLine, netLineChange) ==
    LET insertionColumn == change.range.start.character
    IN  IF shouldExpandRangeAtEnd(change, document, changeStartLine, insertionColumn, netLineChange)
        THEN Adjustment(TRUE, 0, Some(netLineChange))
        ELSE Adjustment(FALSE, 0, Undefined)

\* Mutant: an edit inside the range moves its start as well.
calculateRangeAdjustmentInsideShifts(changeStartLine, netLineChange, rangeStart, rangeEnd, change, document) ==
    IF changeStartLine < rangeStart
    THEN Adjustment(TRUE, netLineChange, Some(netLineChange))
    ELSE IF changeStartLine = rangeStart
    THEN handleChangeAtRangeStart(change, document, changeStartLine, netLineChange)
    ELSE IF changeStartLine > rangeStart /\ changeStartLine < rangeEnd
    THEN Adjustment(TRUE, netLineChange, Some(netLineChange))
    ELSE IF changeStartLine = rangeEnd
    THEN handleChangeAtRangeEnd(change, document, changeStartLine, netLineChange)
    ELSE Adjustment(FALSE, 0, Undefined)

calculateRangeAdjustment(changeStartLine, netLineChange, rangeStart, rangeEnd, change, document) ==
    IF changeStartLine < rangeStart
    THEN Adjustment(TRUE, netLineChange, Some(netLineChange))
    ELSE IF changeStartLine = rangeStart
    THEN handleChangeAtRangeStart(change, document, changeStartLine, netLineChange)
    ELSE IF changeStartLine > rangeStart /\ changeStartLine < rangeEnd
    THEN Adjustment(TRUE, 0, Some(netLineChange))
    ELSE IF changeStartLine = rangeEnd
    THEN handleChangeAtRangeEnd(change, document, changeStartLine, netLineChange)
    ELSE Adjustment(FALSE, 0, Undefined)

\* Mutant: the boundaries of a disabled range are not validated.
validateRangeBoundsOfEnabled(range) ==
    IF ~range.isEnabled THEN range
    ELSE LET startLine == IF range.startLine < 1 THEN 1 ELSE range.startLine
             endLine == IF Truthy(range.endLine) /\ range.endLine[1] < startLine
                        THEN Some(startLine) ELSE range.endLine
         IN  [range EXCEPT !.startLine = startLine, !.endLine = endLine]

validateRangeBounds(range) ==
    LET startLine == IF range.startLine < 1 THEN 1 ELSE range.startLine
        endLine == IF Truthy(range.endLine) /\ range.endLine[1] < startLine
                   THEN Some(startLine) ELSE range.endLine
    IN  [range EXCEPT !.startLine = startLine, !.endLine = endLine]

(***************************************************************************)
(* handleTextDocumentChange: the loop over the edits of one change event.  *)
(***************************************************************************)
LinesAdded(change) == CountNewlines(change.text)
LinesRemoved(change) == change.range.end.line - change.range.start.line
NetLineChange(change) == LinesAdded(change) - LinesRemoved(change)

\* The adjustment the map callback computes for one range of the edited file.
AdjustmentFor(range, change, document) ==
    LET rangeStart == range.startLine - 1
        rangeEnd == IF Truthy(range.endLine) THEN range.endLine[1] - 1 ELSE rangeStart
    IN  calculateRangeAdjustment(change.range.start.line, NetLineChange(change),
                                 rangeStart, rangeEnd, change, document)

\* Mutant: the ranges of every file are adjusted.
AdjustRangeOfAnyFile(range, change, document, currentFilePath) ==
    LET adjustment == AdjustmentFor(range, change, document)
        newRange ==
            IF adjustment.shouldModify
            THEN [range EXCEPT
                    !.startLine = @ + adjustment.startLineDelta,
                    !.endLine = IF Truthy(@) /\ adjustment.endLineDelta /= Undefined
                                THEN Some(@[1] + adjustment.endLineDelta[1])
                                ELSE @]
            ELSE range
    IN  validateRangeBounds(newRange)

\* The callback of ranges.map for one range.
AdjustRange(range, change, document, currentFilePath) ==
    IF range.filePath /= currentFilePath
    THEN range
    ELSE LET adjustment == AdjustmentFor(range, change, document)
             newRange ==
                 IF adjustment.shouldModify
                 THEN [range EXCEPT
                         !.startLine = @ + adjustment.startLineDelta,
                         !.endLine = IF Truthy(@) /\ adjustment.endLineDelta /= Undefined
                                     THEN Some(@[1] + adjustment.endLineDelta[1])
                                     ELSE @]
                 ELSE range
         IN  validateRangeBounds(newRange)

\* Whether the callback sets rangesModified for this range.
MarksModified(range, change, document, currentFilePath) ==
    /\ range.filePath = currentFilePath
    /\ AdjustmentFor(range, change, document).shouldModify

\* document.lineAt(changeStartLine) throws when the document has no such
\* line and some range of the edited file has the change on its first or
\* on its last line, the two cases in which the line is looked at.
LineAtThrows(ranges, change, document, currentFilePath) ==
    /\ change.range.start.line >= document.lineCount
    /\ \E i \in DOMAIN ranges :
          /\ ranges[i].filePath = currentFilePath
          /\ LET rangeStart == ranges[i].startLine - 1
                 rangeEnd == IF Truthy(ranges[i].endLine)
                             THEN ranges[i].endLine[1] - 1 ELSE rangeStart
             IN  change.range.start.line \in {rangeStart, rangeEnd}

\* Mutant: an edit with no net line change is handled like any other.
ApplyChangeNoSkip(acc, change, document, currentFilePath) ==
    IF acc.threw \/ LineAtThrows(acc.ranges, change, document, currentFilePath)
    THEN [acc EXCEPT !.threw = TRUE]
    ELSE [ ranges |-> [i \in DOMAIN acc.ranges |->
                          AdjustRange(acc.ranges[i], change, document, currentFilePath)],
           rangesModified |-> acc.rangesModified
               \/ \E i \in DOMAIN acc.ranges :
                      MarksModified(acc.ranges[i], change, document, currentFilePath),
           threw |-> FALSE ]

\* One iteration of the loop over event.contentChanges; once lineAt has
\* thrown the loop is over.
ApplyChange(acc, change, document, currentFilePath) ==
    IF acc.threw \/ NetLineChange(change) = 0
    THEN acc
    ELSE IF LineAtThrows(acc.ranges, change, document, currentFilePath)
    THEN [acc EXCEPT !.threw = TRUE]
    ELSE [ ranges |-> [i \in DOMAIN acc.ranges |->
                          AdjustRange(acc.ranges[i], change, document, currentFilePath)],
           rangesModified |-> acc.rangesModified
               \/ \E i \in DOMAIN acc.ranges :
                      MarksModified(acc.ranges[i], change, document, currentFilePath),
           threw |-> FALSE ]

RECURSIVE ApplyChanges(_, _, _, _)
ApplyChanges(acc, changes, document, currentFilePath) ==
    IF changes = <<>>
    THEN acc
    ELSE ApplyChanges(ApplyChange(acc, Head(changes), document, currentFilePath),
                      Tail(changes), document, currentFilePath)

\* The synchronous part of the handler between its read and its write:
\* the ranges it holds at the end, whether it is to write them, and whether
\* it ended in an exception instead.
ProcessEvent(ranges, changes, document, currentFilePath) ==
    ApplyChanges([ranges |-> ranges, rangesModified |-> FALSE, threw |-> FALSE],
                 changes, document, currentFilePath)

\* What the backing file holds once the handler has finished.
Persisted(ranges, result) ==
    IF result.rangesModified /\ ~result.threw THEN result.ranges ELSE ranges

(***************************************************************************)
(* State.                                                                  *)
(***************************************************************************)
\* createRange, as createRangeFromSelection calls it: a block range with
\* both boundaries, enabled.
createRange(id, name, filePath, startLine, endLine) ==
    [ id |-> id, name |-> name, filePath |-> filePath, type |-> "block",
      startLine |-> startLine, endLine |-> Some(endLine), isEnabled |-> TRUE ]

\* The range createRangeFromSelection stores for a selection of the
\* 0-indexed lines selStart..selEnd.
RangeFromSelection(id, name, filePath, selStart, selEnd) ==
    createRange(id, name, filePath, selStart + 1, selEnd + 1)

\* An event range, written to the backing file by external tooling: a start
\* line and no endLine.
EventRange(id, name, filePath, startLine) ==
    [ id |-> id, name |-> name, filePath |-> filePath, type |-> "event",
      startLine |-> startLine, endLine |-> Undefined, isEnabled |-> TRUE ]

\* The bound on the line numbers of a range: a range can drift past the end
\* of the document, and without a bound it drifts for ever.
InBounds(range) ==
    /\ range.startLine <= MaxLines
    /\ range.endLine /= Undefined => range.endLine[1] <= MaxLines

NoBurst == [base |-> <<>>, events |-> <<>>]

NoOp == [name |-> "none"]

Range(seq) == { seq[i] : i \in DOMAIN seq }

\* A workspace folder is open, the backing file holds the Range Set, and
\* no operation of the store has run.
StoreIdle ==
    /\ workspace = TRUE
    /\ disk = "array"
    /\ now = 0
    /\ op = NoOp
    /\ retired = {}
    /\ writable = TRUE

NoRun ==
    [ ran |-> FALSE, edits |-> <<>>, document |-> [lineCount |-> 0, text |-> <<>>],
      before |-> <<>>, after |-> <<>>, wrote |-> FALSE, notified |-> FALSE,
      threw |-> FALSE, text |-> <<>>, steps |-> <<>> ]

\* The backing file holds one range of the active document, created from a
\* selection of the document or written by external tooling.
Init ==
    /\ lineCount \in 1..MaxLines
    /\ lines = <<>>
    /\ \E s \in 0..(lineCount - 1) :
          \/ \E e \in s..(lineCount - 1) :
                 file = <<RangeFromSelection("1", "n", ActiveFile, s, e)>>
          \/ file = <<EventRange("1", "n", ActiveFile, s + 1)>>
    /\ handlers = <<>>
    /\ last = NoRun
    /\ burst = NoBurst
    /\ StoreIdle

(***************************************************************************)
(* A change event of the active document, handled to completion before the *)
(* next one arrives: read, loop over the edits, write if rangesModified,   *)
(* ranges-changed callback.  The handler then starts updateDecorations and *)
(* returns; `last` describes the run until that update has completed.      *)
(***************************************************************************)
\* What the handler does once the edits are applied, in the order in which
\* it does it: the write is awaited before the callback is called.
StepsNotifyFirst(writes, threw) ==
    IF threw THEN <<>>
    ELSE (IF writes THEN <<"onRangesChanged", "writeRanges">> ELSE <<>>)
            \o <<"updateDecorations">>

Steps(writes, threw) ==
    IF threw THEN <<>>
    ELSE (IF writes THEN <<"writeRanges", "onRangesChanged">> ELSE <<>>)
            \o <<"updateDecorations">>

Handle(edits, document) ==
    LET changes == [k \in DOMAIN edits |-> ChangeOf(edits[k])]
        result == ProcessEvent(file, changes, document, ActiveFile)
        writes == result.rangesModified /\ ~result.threw
    IN  /\ file' = Persisted(file, result)
        /\ last' = [ ran |-> TRUE, edits |-> edits, document |-> document,
                     before |-> file, after |-> result.ranges,
                     wrote |-> writes, notified |-> writes,
                     threw |-> result.threw, text |-> lines,
                     steps |-> Steps(writes, result.threw) ]

HandleChange(e) ==
    LET document == DocumentAfter(lineCount, e)
        result == ProcessEvent(file, <<ChangeOf(e)>>, document, ActiveFile)
    IN  /\ document.lineCount <= MaxLines
        /\ \A i \in DOMAIN result.ranges : InBounds(result.ranges[i])
        /\ lineCount' = document.lineCount
        /\ Handle(<<e>>, document)
        /\ UNCHANGED <<lines, handlers, burst>>
        /\ UNCHANGED storeVars

ChangeEvent ==
    /\ ~last.ran
    /\ \E line \in 0..(lineCount - 1), text \in Texts, startText \in LineTexts :
        \E endLine \in line..(lineCount - 1), character \in 0..Len(startText) :
          \E tail \in (IF endLine = line THEN {Suffix(startText, character)} ELSE Tails),
             next \in (IF endLine = lineCount - 1 THEN {<<>>} ELSE {<<t>> : t \in NextTexts}) :
              HandleChange(Edit(line, character, endLine, text, startText, tail, next))

\* decorationManager.updateDecorations() of the handler completes.
UpdateDecorations ==
    /\ last.ran
    /\ last' = NoRun
    /\ UNCHANGED <<lineCount, lines, file, handlers, burst>>
    /\ UNCHANGED storeVars

Next == ChangeEvent \/ UpdateDecorations

Spec == Init /\ [][Next]_vars

(***************************************************************************)
(* Change events that carry more than one edit, and a backing file that    *)
(* holds ranges of two files.  The whole text of the document is kept: the *)
(* edits of one event are positions of the document before the event, and  *)
(* the handler reads the document as it is after all of them.              *)
(***************************************************************************)
\* A range of another file as external tooling left it in the backing
\* file, with boundaries that violate the data model: readRanges parses the
\* file and checks nothing.
StrayRange ==
    [ id |-> "3", name |-> "k", filePath |-> OtherFile, type |-> "block",
      startLine |-> 0, endLine |-> Some(-1), isEnabled |-> TRUE ]

InitBatch ==
    /\ lineCount \in 1..MaxBatchLines
    /\ lines \in [1..lineCount -> BatchLineTexts]
    /\ \E s \in 0..(lineCount - 1) :
          \/ \E e \in s..(lineCount - 1) :
                 file = << RangeFromSelection("1", "n", ActiveFile, s, e),
                           RangeFromSelection("2", "m", OtherFile, s, e),
                           StrayRange >>
          \/ file = << EventRange("1", "n", ActiveFile, s + 1),
                       EventRange("2", "m", OtherFile, s + 1),
                       StrayRange >>
    /\ handlers = <<>>
    /\ last = NoRun
    /\ burst = NoBurst
    /\ StoreIdle

\* The edits the user can make to the document.
EditsOf(doc) ==
    UNION { UNION { UNION {
        { EditAt(doc, line, character, endLine, endCharacter, text) :
            endCharacter \in (IF endLine = line
                              THEN character..Len(doc[line + 1])
                              ELSE 0..Len(doc[endLine + 1])),
            text \in BatchTexts }
        : endLine \in {l \in {line, line + 1} : l < Len(doc)} }
        : character \in 0..Len(doc[line + 1]) }
        : line \in 0..(Len(doc) - 1) }

\* Bounds on the document and on the line numbers of a range.
InBatchBounds(doc, ranges) ==
    /\ Len(doc) <= MaxBatchLines
    /\ \A i \in DOMAIN doc : doc[i] \in BatchLineTexts
    /\ \A i \in DOMAIN ranges :
          /\ ranges[i].startLine <= MaxBatchLines + 1
          /\ ranges[i].endLine /= Undefined => ranges[i].endLine[1] <= MaxBatchLines + 1

HandleBatch(edits, doc) ==
    LET document == TextDocument(doc)
        changes == [k \in DOMAIN edits |-> ChangeOf(edits[k])]
    IN  /\ InBatchBounds(doc, ProcessEvent(file, changes, document, ActiveFile).ranges)
        /\ lineCount' = Len(doc)
        /\ lines' = doc
        /\ Handle(edits, document)
        /\ UNCHANGED <<handlers, burst>>
        /\ UNCHANGED storeVars

\* A change event with one edit.
SingleEditEvent ==
    /\ ~last.ran
    /\ \E e \in EditsOf(lines) : HandleBatch(<<e>>, Splice(lines, e))

\* The column at which an edit of the document `doc` ends.
EndCharacter(doc, e) == Len(doc[e.endLine + 1]) - Len(e.tail)

\* Edit `upper` ends at or before the position at which `lower` starts, and
\* the two are not insertions at one and the same position.
Precedes(doc, upper, lower) ==
    \/ upper.endLine < lower.line
    \/ /\ upper.endLine = lower.line
       /\ EndCharacter(doc, upper) <= lower.character
       /\ \/ upper.line < lower.line
          \/ upper.character < lower.character
          \/ lower.endLine > lower.line
          \/ EndCharacter(doc, lower) > lower.character

\* The document once both edits are applied, `upper` preceding `lower`.
SpliceBoth(doc, upper, lower) ==
    IF upper.endLine < lower.line
    THEN Splice(Splice(doc, lower), upper)
    ELSE SubSeq(doc, 1, upper.line)
            \o SplitLines(Prefix(upper.startText, upper.character) \o upper.text
                            \o SubSeq(doc[lower.line + 1],
                                      EndCharacter(doc, upper) + 1, lower.character)
                            \o lower.text \o lower.tail)
            \o SubSeq(doc, lower.endLine + 2, Len(doc))

\* A change event with two edits of disjoint parts of the document,
\* reported in either order.
TwoEditEvent ==
    /\ ~last.ran
    /\ \E upper \in EditsOf(lines), lower \in EditsOf(lines) :
          /\ Precedes(lines, upper, lower)
          /\ \E edits \in {<<upper, lower>>, <<lower, upper>>} :
                 HandleBatch(edits, SpliceBoth(lines, upper, lower))

NextBatch == SingleEditEvent \/ TwoEditEvent \/ UpdateDecorations

SpecBatch == InitBatch /\ [][NextBatch]_vars

(***************************************************************************)
(* Overlapping change events.  onDidChangeTextDocument does not wait for   *)
(* the promise of its listener, so an event that arrives while an earlier  *)
(* handler is suspended starts a handler of its own.  A handler is         *)
(* suspended twice: in readRanges (vscode.workspace.fs.readFile) and, if   *)
(* rangesModified, in writeRanges (vscode.workspace.fs.writeFile).         *)
(* Between the two it runs without interruption, and reads the lines of    *)
(* the live document.                                                      *)
(***************************************************************************)
InitConc ==
    /\ lineCount \in 1..MaxConcLines
    /\ lines = <<>>
    /\ \E s \in 0..(lineCount - 1), e \in 0..(lineCount - 1) :
          /\ s <= e
          /\ file = <<RangeFromSelection("1", "n", ActiveFile, s, e)>>
    /\ handlers = <<>>
    /\ last = NoRun
    /\ burst = NoBurst
    /\ StoreIdle

Remove(seq, k) == [i \in 1..(Len(seq) - 1) |-> IF i < k THEN seq[i] ELSE seq[i + 1]]

\* The user edits the active document; the handler of the change event
\* runs up to its read of the backing file.
Arrive(e) ==
    LET document == DocumentAfter(lineCount, e)
    IN  /\ handlers /= <<>> => Len(burst.events) < MaxOverlap
        /\ document.lineCount <= MaxConcLines
        /\ lineCount' = document.lineCount
        /\ handlers' = Append([k \in DOMAIN handlers |-> [handlers[k] EXCEPT !.stale = TRUE]],
                              [ pc |-> "read", edit |-> e, document |-> document,
                                stale |-> FALSE, payload |-> <<>> ])
        /\ burst' = IF handlers = <<>>
                    THEN [ base |-> file, events |-> <<[edit |-> e, document |-> document]>> ]
                    ELSE [ burst EXCEPT !.events =
                               Append(@, [edit |-> e, document |-> document]) ]
        /\ UNCHANGED <<lines, file, last>>
        /\ UNCHANGED storeVars

EditDocument ==
    \E line \in 0..(lineCount - 1), text \in {<<>>, <<"\n">>}, character \in {0, 2} :
      \E endLine \in line..(lineCount - 1) :
        \E tail \in (IF endLine = line THEN {Suffix(<<"x", " ">>, character)} ELSE {<<>>}),
           next \in (IF endLine = lineCount - 1 THEN {<<>>} ELSE {<<<<"x">>>>}) :
            Arrive(Edit(line, character, endLine, text, <<"x", " ">>, tail, next))

\* The document a suspended handler finds when it resumes: the one its
\* event left, or, if the document was edited again in between, the live
\* document with whatever text the lines it looks at now hold.
DocumentSeen(h, startText, nextText) ==
    IF ~h.stale
    THEN h.document
    ELSE [ lineCount |-> lineCount,
           text |-> [ i \in {h.edit.line, h.edit.line + 1} \cap 0..(lineCount - 1)
                        |-> IF i = h.edit.line THEN startText ELSE nextText ] ]

\* readFile completes: the handler runs its loop on the ranges it read and
\* either starts the write or, with nothing to write, finishes.
ReadDone(k, startText, nextText) ==
    LET h == handlers[k]
        document == DocumentSeen(h, startText, nextText)
        result == ProcessEvent(file, <<ChangeOf(h.edit)>>, document, ActiveFile)
    IN  /\ h.pc = "read"
        /\ \A i \in DOMAIN result.ranges : InBounds(result.ranges[i])
        /\ handlers' = IF result.rangesModified /\ ~result.threw
                       THEN [handlers EXCEPT ![k].pc = "write",
                                             ![k].payload = result.ranges]
                       ELSE Remove(handlers, k)
        /\ UNCHANGED <<lineCount, lines, file, last, burst>>
        /\ UNCHANGED storeVars

ReadCompletes ==
    \E k \in DOMAIN handlers :
        \E startText \in (IF handlers[k].stale THEN LineTexts ELSE {<<>>}),
           nextText \in (IF handlers[k].stale THEN NextTexts ELSE {<<>>}) :
            ReadDone(k, startText, nextText)

\* writeFile completes: the backing file holds what this handler computed;
\* the ranges-changed callback fires and the handler finishes.
WriteCompletes ==
    \E k \in DOMAIN handlers :
        /\ handlers[k].pc = "write"
        /\ file' = handlers[k].payload
        /\ handlers' = Remove(handlers, k)
        /\ UNCHANGED <<lineCount, lines, last, burst>>
        /\ UNCHANGED storeVars

NextConc == EditDocument \/ ReadCompletes \/ WriteCompletes

SpecConc == InitConc /\ [][NextConc]_vars

(***************************************************************************)
(* Vocabulary of the properties.  While last.ran holds, last.before is the *)
(* Range Set the handler read, TheEdit the edit of its event and `file`    *)
(* the Range Set persisted once the handler has finished.                  *)
(***************************************************************************)
HasEnd(range) == range.endLine /= Undefined
End(range) == range.endLine[1]

TheEdit == last.edits[1]
TheChange == ChangeOf(TheEdit)
Net == NetLineChange(TheChange)

\* The text of the edit's start line in the document the handler reads.
StartLineRead == LineAt(last.document, TheEdit.line)

\* The edit's start line (0-indexed) as a stored, 1-indexed line number.
EditLine == TheEdit.line + 1
EditEndLine == TheEdit.endLine + 1

\* A range as the data model defines it: endLine, when present, is not
\* before startLine.
WellFormed(range) ==
    /\ range.startLine >= 1
    /\ HasEnd(range) => End(range) >= range.startLine

\* Both boundaries of range i moved by d / only its endLine moved by d.
ShiftedBoth(i, d) ==
    /\ file[i].startLine = last.before[i].startLine + d
    /\ HasEnd(last.before[i]) => file[i].endLine = Some(End(last.before[i]) + d)
    /\ ~HasEnd(last.before[i]) => ~HasEnd(file[i])
GrewBy(i, d) ==
    /\ file[i].startLine = last.before[i].startLine
    /\ HasEnd(last.before[i]) => file[i].endLine = Some(End(last.before[i]) + d)
    /\ ~HasEnd(last.before[i]) => ~HasEnd(file[i])
Unchanged(i) == file[i] = last.before[i]

(***************************************************************************)
(* C1.  After any sequence of range creations and change events, every     *)
(* persisted range has startLine >= 1 and, when it has an endLine,         *)
(* endLine >= startLine.                                                   *)
(***************************************************************************)
C1_BoundsInvariant ==
    \A i \in DOMAIN file :
        /\ file[i].startLine >= 1
        /\ HasEnd(file[i]) => End(file[i]) >= file[i].startLine

(***************************************************************************)
(* C4.  Rigid shift: an edit that starts and ends on lines before the      *)
(* range's first line, with netLineChange /= 0, moves startLine and        *)
(* endLine by exactly netLineChange.                                       *)
(***************************************************************************)
EditAbove(i) ==
    /\ EditLine < last.before[i].startLine
    /\ EditEndLine < last.before[i].startLine
    /\ Net /= 0

C4_RigidShift ==
    last.ran => \A i \in DOMAIN last.before : EditAbove(i) => ShiftedBoth(i, Net)

\* The same, for the ranges that satisfy the data model's invariant.
C4_RigidShiftOfWellFormed ==
    last.ran => \A i \in DOMAIN last.before :
        EditAbove(i) /\ WellFormed(last.before[i]) => ShiftedBoth(i, Net)

(***************************************************************************)
(* C5.  Containment growth: an edit whose start line is strictly between   *)
(* startLine and endLine of a block range changes endLine by exactly       *)
(* netLineChange and leaves startLine unchanged, for insertions and for    *)
(* deletions alike.                                                        *)
(***************************************************************************)
EditInside(i) ==
    /\ HasEnd(last.before[i])
    /\ last.before[i].startLine < EditLine
    /\ EditLine < End(last.before[i])
    /\ Net /= 0

EditBelow(i) ==
    IF last.before[i].type = "event"
    THEN EditLine > last.before[i].startLine
    ELSE HasEnd(last.before[i]) /\ EditLine > End(last.before[i])

C6_NoOpBelow ==
    last.ran => \A i \in DOMAIN last.before : EditBelow(i) => Unchanged(i)

\* The same, for the ranges that satisfy the data model's invariant.
C6_NoOpBelowWellFormed ==
    last.ran => \A i \in DOMAIN last.before :
        EditBelow(i) /\ WellFormed(last.before[i]) => Unchanged(i)

(***************************************************************************)
(* C8.  At-start rule: an edit that starts on the range's startLine, with  *)
(* netLineChange /= 0, shifts both boundaries by netLineChange if its      *)
(* start column is at or before the first non-whitespace column of that    *)
(* line or the line is blank; otherwise startLine is unchanged and only    *)
(* endLine changes by netLineChange.                                       *)
(***************************************************************************)
EditAtStart(i) == EditLine = last.before[i].startLine /\ Net /= 0

\* The edit's column is at or before the first non-whitespace column of
\* the line, or the line is blank.
BeforeContent(lineText, column) ==
    \/ \A k \in 1..Len(lineText) : IsWhitespace(lineText[k])
    \/ \E k \in 1..Len(lineText) :
          /\ ~IsWhitespace(lineText[k])
          /\ \A j \in 1..(k - 1) : IsWhitespace(lineText[j])
          /\ column <= k - 1

AtStartRule(i, lineText) ==
    IF BeforeContent(lineText, TheEdit.character)
    THEN ShiftedBoth(i, Net)
    ELSE GrewBy(i, Net)

AtStartRuleUnclamped(i, lineText) ==
    LET before == last.before[i]
        newStart == IF BeforeContent(lineText, TheEdit.character)
                    THEN before.startLine + Net ELSE before.startLine
    IN  /\ newStart >= 1
        /\ Truthy(before.endLine) => End(before) + Net >= newStart
        => /\ file[i].startLine = newStart
           /\ file[i].endLine = IF Truthy(before.endLine)
                                THEN Some(End(before) + Net) ELSE before.endLine

EditAtEnd(i) ==
    /\ HasEnd(last.before[i])
    /\ End(last.before[i]) > last.before[i].startLine
    /\ EditLine = End(last.before[i])

NonBlank(lineText) == \E k \in 1..Len(lineText) : ~IsWhitespace(lineText[k])

\* The line after the edit's start line, in the document the handler reads,
\* has non-blank content.
NextLineNonBlank ==
    /\ TheEdit.line + 1 < last.document.lineCount
    /\ NonBlank(LineAt(last.document, TheEdit.line + 1))

\* The edit's start line has non-blank content at or after the column.
ContentAfterColumn(lineText, column) ==
    \E k \in (column + 1)..Len(lineText) : ~IsWhitespace(lineText[k])

PureAppend ==
    /\ ~IncludesNewline(TheEdit.text)
    /\ TheEdit.text /= <<>>
    /\ TheEdit.endLine = TheEdit.line
    /\ ~ContentAfterColumn(TheEdit.startText, TheEdit.character)

C10_AtEndSingleLine ==
    last.ran => \A i \in DOMAIN last.before :
        /\ HasEnd(last.before[i]) /\ EditLine = End(last.before[i])
        /\ ~IncludesNewline(TheEdit.text)
        => /\ End(file[i]) > End(last.before[i])
                => ContentAfterColumn(StartLineRead, TheEdit.character)
           /\ EditAtEnd(i) /\ ~Unchanged(i)
                => ContentAfterColumn(StartLineRead, TheEdit.character)
           /\ PureAppend => Unchanged(i)

\* C10's example: one character is appended at the very end of the end
\* line of a block range, and the range is as it was.
C10_Witness ==
    /\ last.ran
    /\ PureAppend
    /\ TheEdit.text = <<"x">>
    /\ TheEdit.startText = <<" ", "x">> /\ TheEdit.character = 2
    /\ \E i \in DOMAIN last.before : EditAtEnd(i) /\ Unchanged(i)

\* An edit without a newline on a block's end line that does change the
\* range: it joins the following line to the end line, before content.
C10_ChangeReached ==
    /\ last.ran
    /\ ~IncludesNewline(TheEdit.text)
    /\ \E i \in DOMAIN last.before : EditAtEnd(i) /\ ~Unchanged(i)

(***************************************************************************)
(* C2.  The handler of a change event never starts its read-modify-write   *)
(* cycle while the write of an earlier change event is outstanding: at     *)
(* most one cycle is between its read and the completion of its write.     *)
(***************************************************************************)
InCycle(h) == h.pc \in {"read", "write"}

C2_OneCycleAtATime ==
    Cardinality({k \in DOMAIN handlers : InCycle(handlers[k])}) <= 1

(***************************************************************************)
(* C3.  No change event is lost: when E2 arrives while the handler of E1   *)
(* is still reading or writing, the Range Set persisted once both handlers *)
(* have finished is the result of adjusting the ranges by E1 and then by   *)
(* E2.                                                                     *)
(***************************************************************************)
\* The Range Set persisted when the events are handled one after the
\* other, each to completion.
RECURSIVE HandledInTurn(_, _)
HandledInTurn(ranges, events) ==
    IF events = <<>>
    THEN ranges
    ELSE LET result == ProcessEvent(ranges, <<ChangeOf(Head(events).edit)>>,
                                    Head(events).document, ActiveFile)
         IN  HandledInTurn(Persisted(ranges, result), Tail(events))

C3_NoLostUpdate ==
    handlers = <<>> /\ Len(burst.events) = 2
        => file = HandledInTurn(burst.base, burst.events)

(***************************************************************************)
(* C7.  An edit whose netLineChange is 0 leaves every range of every file  *)
(* unchanged, wherever it lies relative to the ranges: the handler ends    *)
(* with the ranges it would end with had the event not carried the edit.   *)
(* A change event made only of such edits leaves the Range Set as it was   *)
(* and triggers no write and no ranges-changed callback.                   *)
(***************************************************************************)
ZeroNet(e) == NetLineChange(ChangeOf(e)) = 0

\* The changes of the event's edits that have a net line change.
NonZeroNetChanges ==
    LET kept == SelectSeq(last.edits, LAMBDA e : ~ZeroNet(e))
    IN  [k \in DOMAIN kept |-> ChangeOf(kept[k])]

C7_ZeroNetEditsChangeNothing ==
    last.ran =>
        /\ last.after = ProcessEvent(last.before, NonZeroNetChanges,
                                     last.document, ActiveFile).ranges
        /\ (\A k \in DOMAIN last.edits : ZeroNet(last.edits[k]))
              => /\ last.after = last.before
                 /\ file = last.before
                 /\ ~last.wrote
                 /\ ~last.notified

\* An event of two zero-net edits, one on the first and one on the last
\* line of a block range, with a range of another file in the Range Set.
C7_Witness ==
    /\ last.ran
    /\ Len(last.edits) = 2
    /\ \A k \in DOMAIN last.edits : ZeroNet(last.edits[k])
    /\ HasEnd(last.before[1]) /\ End(last.before[1]) > last.before[1].startLine
    /\ \E k \in DOMAIN last.edits : last.edits[k].line + 1 = last.before[1].startLine
    /\ \E k \in DOMAIN last.edits : last.edits[k].line + 1 = End(last.before[1])
    /\ \E i \in DOMAIN file : file[i].filePath = OtherFile
    /\ file = last.before

\* A zero-net edit that removes a line break and inserts one, on the first
\* line of a block range.
C7_LineBreakReplaced ==
    /\ last.ran
    /\ Len(last.edits) = 1
    /\ ZeroNet(last.edits[1])
    /\ IncludesNewline(last.edits[1].text)
    /\ last.edits[1].endLine > last.edits[1].line
    /\ HasEnd(last.before[1]) /\ End(last.before[1]) > last.before[1].startLine
    /\ last.edits[1].line + 1 = last.before[1].startLine
    /\ file = last.before

\* An event of a zero-net edit and an edit that moves the range.
C7_MixedEventReached ==
    /\ last.ran
    /\ Len(last.edits) = 2
    /\ ZeroNet(last.edits[1]) /\ ~ZeroNet(last.edits[2])
    /\ last.edits[1].line + 1 = last.before[1].startLine
    /\ last.wrote
    /\ file /= last.before

(***************************************************************************)
(* C11.  The edits of one change event are applied in the order reported,  *)
(* each against the ranges as adjusted by the earlier ones: one event      *)
(* carrying the edits e1, e2 yields the ranges that an event carrying e1   *)
(* followed by an event carrying e2 yields.  The edits are reported from   *)
(* the bottom of the document upwards, so that e2 is an edit of the        *)
(* document e1 leaves.                                                     *)
(***************************************************************************)
\* The event's edits are reported bottom first.
BottomFirst ==
    /\ Len(last.edits) = 2
    /\ Precedes(last.text, last.edits[2], last.edits[1])

\* The Range Set persisted by an event that carries the first edit followed
\* by an event that carries the second, each handled to completion with
\* the document its edit leaves.
OneEventPerEdit ==
    LET first == ProcessEvent(last.before, <<ChangeOf(last.edits[1])>>,
                              TextDocument(Splice(last.text, last.edits[1])), ActiveFile)
        between == Persisted(last.before, first)
        second == ProcessEvent(between, <<ChangeOf(last.edits[2])>>,
                               last.document, ActiveFile)
    IN  Persisted(between, second)

C11_BatchAsSequence ==
    last.ran /\ BottomFirst => file = OneEventPerEdit

(***************************************************************************)
(* C12.  A change event writes the Range Set and fires the ranges-changed  *)
(* callback only if the startLine or the endLine of some range differs     *)
(* after the event from its value before it; when no boundary has changed  *)
(* there is no write and no notification.                                  *)
(***************************************************************************)
BoundaryChanged ==
    \E i \in DOMAIN last.before :
        \/ file[i].startLine /= last.before[i].startLine
        \/ file[i].endLine /= last.before[i].endLine

C12_WriteOnlyIfChanged ==
    last.ran /\ ~BoundaryChanged => ~last.wrote /\ ~last.notified

(***************************************************************************)
(* C13.  A change event of file F leaves every range whose filePath is not *)
(* F unchanged in every field, also a range whose boundaries violate       *)
(* startLine >= 1 or endLine >= startLine.                                 *)
(***************************************************************************)
C13_OtherFilesUntouched ==
    last.ran => \A i \in DOMAIN last.before :
        last.before[i].filePath /= ActiveFile
            => last.after[i] = last.before[i] /\ file[i] = last.before[i]

\* The event moved the range of the edited file and the Range Set was
\* written; it holds a range of another file on the same lines and one with
\* boundaries out of order, both as they were.
C13_Witness ==
    /\ last.ran /\ last.wrote
    /\ file[1] /= last.before[1]
    /\ \E i \in DOMAIN file :
          /\ file[i].filePath = OtherFile
          /\ file[i].startLine = last.before[1].startLine
          /\ file[i] = last.before[i]
    /\ \E i \in DOMAIN file :
          /\ file[i].filePath = OtherFile
          /\ ~WellFormed(file[i])
          /\ file[i] = last.before[i]

(***************************************************************************)
(* The range store: the operations of NvtxRangeManager on the backing file *)
(* and the command that creates a range from a selection.                  *)
(***************************************************************************)

MaxClock == 1
MaxRanges == 1

\* What the backing file can hold: nothing at all ("absent"), no character,
\* white space only, text that is not JSON ("garbage"), JSON that is not an
\* array, such as null or {} ("notArray"), or the JSON of a Range Set.
DiskKinds == { "absent", "empty", "blank", "garbage", "notArray", "array" }

ReadError == "Error reading NVTX ranges"
WriteError == "Error writing NVTX ranges"

\* getRangesFilePath throws when no workspace folder is open.
getRangesFilePathThrows(folderOpen) == ~folderOpen

\* readRanges answering with the Range Set the backing file held before it
\* was changed from outside.
readRangesStale(folderOpen, content, ranges) ==
    [ isArray |-> TRUE,
      ranges |-> IF op.name = "external" THEN op.read ELSE ranges,
      shown |-> <<>> ]

\* readRanges: the value it resolves to and the errors it shows.  The value
\* of JSON.parse is returned as it is: isArray tells whether it is an array.
readRanges(folderOpen, content, ranges) ==
    IF getRangesFilePathThrows(folderOpen)
    THEN [ isArray |-> TRUE, ranges |-> <<>>, shown |-> <<ReadError>> ]
    ELSE CASE content = "absent" ->
                [ isArray |-> TRUE, ranges |-> <<>>, shown |-> <<>> ]
           [] content \in { "empty", "blank" } ->
                [ isArray |-> TRUE, ranges |-> <<>>, shown |-> <<>> ]
           [] content = "garbage" ->
                [ isArray |-> TRUE, ranges |-> <<>>, shown |-> <<ReadError>> ]
           [] content = "notArray" ->
                [ isArray |-> FALSE, ranges |-> <<>>, shown |-> <<>> ]
           [] content = "array" ->
                [ isArray |-> TRUE, ranges |-> ranges, shown |-> <<>> ]

\* writeRanges that keeps a failure of the file system to itself.
writeRangesSilent(folderOpen, canWrite, ranges) ==
    IF getRangesFilePathThrows(folderOpen)
    THEN [ written |-> FALSE, shown |-> <<WriteError>> ]
    ELSE [ written |-> canWrite, shown |-> <<>> ]

\* writeRanges: whether the backing file was written and the errors shown.
\* createDirectory or writeFile rejects when the file system refuses the
\* write; the catch block shows the error and the promise resolves.
writeRanges(folderOpen, canWrite, ranges) ==
    IF getRangesFilePathThrows(folderOpen) \/ ~canWrite
    THEN [ written |-> FALSE, shown |-> <<WriteError>> ]
    ELSE [ written |-> TRUE, shown |-> <<>> ]

generateUniqueId(clock) == ToString(clock)

\* The outcome of an operation that did not call writeRanges.
NoWrite == [ called |-> FALSE, written |-> FALSE, shown |-> <<>>, ranges |-> <<>> ]

\* The outcome of an operation that called writeRanges(ranges).
Write(ranges) ==
    [ called |-> TRUE,
      written |-> writeRanges(workspace, writable, ranges).written,
      shown |-> writeRanges(workspace, writable, ranges).shown,
      ranges |-> ranges ]

\* An operation ends: the backing file holds what was written, and the
\* history records what the operation read, wrote, returned and showed,
\* whether its command then told the user that it was done, and whether the
\* change handler called the ranges-changed callback.  `input` is what the
\* user gave the command: the selection, the updates, the edit.
Finish(name, id, input, read, write, returned, threw, reported) ==
    /\ IF write.written
       THEN disk' = "array" /\ file' = write.ranges
       ELSE UNCHANGED <<disk, file>>
    /\ op' = [ name |-> name, id |-> id, input |-> input,
               disk |-> disk, before |-> file,
               read |-> read.ranges,
               called |-> write.called, wrote |-> write.written,
               returned |-> returned, threw |-> threw,
               shown |-> read.shown \o write.shown,
               reported |-> reported,
               notified |-> name = "change" /\ write.called ]

\* ranges.push, ranges.filter, ranges.find and ranges.map throw a TypeError
\* when the value readRanges resolved to is not an array.
Throw(name, id, read) ==
    Finish(name, id, <<>>, read, NoWrite, "none", TRUE, FALSE)

\* addRange putting the new range in front of the others.
addRangeInFront(name, range, input, reported) ==
    LET read == readRanges(workspace, disk, file)
    IN  IF ~read.isArray
        THEN Throw(name, range.id, read)
        ELSE Finish(name, range.id, input, read,
                    Write(<<range>> \o read.ranges), "void", FALSE, reported)

\* addRange and what it leaves to its caller: whether it threw.
addRange(name, range, input, reported) ==
    LET read == readRanges(workspace, disk, file)
    IN  IF ~read.isArray
        THEN Throw(name, range.id, read)
        ELSE Finish(name, range.id, input, read,
                    Write(Append(read.ranges, range)), "void", FALSE, reported)

Filter(ranges, rangeId) == SelectSeq(ranges, LAMBDA r : r.id /= rangeId)

Find(ranges, rangeId) ==
    IF \E i \in DOMAIN ranges : ranges[i].id = rangeId
    THEN CHOOSE i \in DOMAIN ranges :
            /\ ranges[i].id = rangeId
            /\ \A j \in 1..(i - 1) : ranges[j].id /= rangeId
    ELSE 0

\* Object.assign(target, updates)
Assign(target, updates) ==
    [ k \in DOMAIN target |->
        IF k \in DOMAIN updates THEN updates[k] ELSE target[k] ]

\* The ids the clock can give, and the ids the operations are called with.
ClockIds == { generateUniqueId(t) : t \in 0..MaxClock }
Ids == ClockIds \cup { "ext" }

Updates == { [name |-> "m"] }

\* A range written to the backing file by external tooling.
ExternalRange == EventRange("ext", "n", ActiveFile, 1)

StoreRest == <<lineCount, lines, handlers, last, burst, workspace, writable>>

Tick ==
    /\ now < MaxClock
    /\ now' = now + 1
    /\ UNCHANGED <<file, disk, op, retired>>
    /\ UNCHANGED StoreRest

createRangeFromSelection ==
    /\ \E selStart \in 0..(Len(lines) - 1) : \E selEnd \in selStart..(Len(lines) - 1) :
          addRange("createRangeFromSelection",
                   RangeFromSelection(generateUniqueId(now), "n", ActiveFile,
                                      selStart, selEnd),
                   <<selStart, selEnd>>, TRUE)
    /\ UNCHANGED <<now, retired>>
    /\ UNCHANGED StoreRest

deleteRange(rangeId) ==
    LET read == readRanges(workspace, disk, file)
        updatedRanges == Filter(read.ranges, rangeId)
        found == Len(updatedRanges) /= Len(read.ranges)
    IN  /\ IF ~read.isArray
           THEN Throw("deleteRange", rangeId, read)
           ELSE IF found
           THEN Finish("deleteRange", rangeId, <<>>, read, Write(updatedRanges),
                       "true", FALSE, TRUE)
           ELSE Finish("deleteRange", rangeId, <<>>, read, NoWrite,
                       "false", FALSE, FALSE)
        /\ retired' = IF read.isArray /\ found /\ writable /\ rangeId \in ClockIds
                      THEN retired \cup {rangeId} ELSE retired
        /\ UNCHANGED now
        /\ UNCHANGED StoreRest

updateRange(rangeId, updates) ==
    LET read == readRanges(workspace, disk, file)
        target == Find(read.ranges, rangeId)
    IN  /\ IF ~read.isArray
           THEN Throw("updateRange", rangeId, read)
           ELSE IF target /= 0
           THEN Finish("updateRange", rangeId, <<>>, read,
                       Write([read.ranges EXCEPT
                                ![target] = Assign(read.ranges[target], updates)]),
                       "true", FALSE, TRUE)
           ELSE Finish("updateRange", rangeId, <<>>, read, NoWrite,
                       "false", FALSE, FALSE)
        /\ UNCHANGED <<now, retired>>
        /\ UNCHANGED StoreRest

\* Mutant: the range is disabled, whatever it was.
toggleRangeEnabledOff(rangeId) ==
    LET read == readRanges(workspace, disk, file)
        target == Find(read.ranges, rangeId)
    IN  /\ IF ~read.isArray
           THEN Throw("toggleRangeEnabled", rangeId, read)
           ELSE IF target /= 0
           THEN Finish("toggleRangeEnabled", rangeId, <<>>, read,
                       Write([read.ranges EXCEPT ![target].isEnabled = FALSE]),
                       "true", FALSE, TRUE)
           ELSE Finish("toggleRangeEnabled", rangeId, <<>>, read, NoWrite,
                       "false", FALSE, FALSE)
        /\ UNCHANGED <<now, retired>>
        /\ UNCHANGED StoreRest

toggleRangeEnabled(rangeId) ==
    LET read == readRanges(workspace, disk, file)
        target == Find(read.ranges, rangeId)
    IN  /\ IF ~read.isArray
           THEN Throw("toggleRangeEnabled", rangeId, read)
           ELSE IF target /= 0
           THEN Finish("toggleRangeEnabled", rangeId, <<>>, read,
                       Write([read.ranges EXCEPT
                                ![target].isEnabled = ~read.ranges[target].isEnabled]),
                       "true", FALSE, TRUE)
           ELSE Finish("toggleRangeEnabled", rangeId, <<>>, read, NoWrite,
                       "false", FALSE, FALSE)
        /\ UNCHANGED <<now, retired>>
        /\ UNCHANGED StoreRest

\* The active document while the store is in use: one line, or that line
\* below a blank one.
StoreDocuments == { << <<"x">> >>, << <<>>, <<"x">> >> }

\* The edits of the active document while the store is in use: a line break
\* typed at the start of the document, and the first line deleted.
StoreEdits(doc) ==
    { EditAt(doc, 0, 0, 0, 0, <<"\n">>) }
        \cup (IF Len(doc) > 1 THEN { EditAt(doc, 0, 0, 1, 0, <<>>) } ELSE {})

\* handleTextDocumentChange on the store: one edit of the active document.
ChangeOnStore ==
    \E e \in StoreEdits(lines) :
        LET doc == Splice(lines, e)
            read == readRanges(workspace, disk, file)
            result == ProcessEvent(read.ranges, <<ChangeOf(e)>>,
                                   TextDocument(doc), ActiveFile)
            writes == result.rangesModified /\ ~result.threw
        IN  /\ doc \in StoreDocuments
            /\ InBatchBounds(doc, result.ranges)
            /\ lines' = doc
            /\ lineCount' = Len(doc)
            /\ IF ~read.isArray /\ NetLineChange(ChangeOf(e)) /= 0
               THEN Throw("change", "", read)
               ELSE Finish("change", "", <<>>, read,
                           IF writes THEN Write(result.ranges) ELSE NoWrite,
                           "void", result.threw, FALSE)
            /\ UNCHANGED <<now, retired, handlers, last, burst, workspace, writable>>

\* External tooling, or the user, overwrites or removes the backing file.
ExternalWrite ==
    /\ workspace
    /\ \E content \in DiskKinds :
          /\ disk' = content
          /\ file' \in (IF content = "array"
                        THEN { <<>>, <<ExternalRange>> } ELSE { <<>> })
          /\ <<disk', file'>> /= <<disk, file>>
    /\ op' = [ name |-> "external", read |-> file ]
    /\ UNCHANGED <<now, retired>>
    /\ UNCHANGED StoreRest

InitStore ==
    /\ lineCount = 1
    /\ lines = << <<"x">> >>
    /\ handlers = <<>>
    /\ last = NoRun
    /\ burst = NoBurst
    /\ workspace \in BOOLEAN
    /\ disk = "absent"
    /\ file = <<>>
    /\ now = 0
    /\ op = NoOp
    /\ retired = {}
    /\ writable = TRUE

\* The command, while the Range Set has room for another range.
CreateRange ==
    /\ Len(file) < MaxRanges
    /\ createRangeFromSelection

NextStore ==
    \/ Tick
    \/ CreateRange
    \/ \E rangeId \in Ids : deleteRange(rangeId)
    \/ \E rangeId \in Ids : \E updates \in Updates : updateRange(rangeId, updates)
    \/ \E rangeId \in Ids : toggleRangeEnabled(rangeId)
    \/ ChangeOnStore
    \/ ExternalWrite

SpecStore == InitStore /\ [][NextStore]_vars

\* The operations of the store that look a range up by its id.
ById == { "deleteRange", "updateRange", "toggleRangeEnabled" }

HasId(ranges, rangeId) == \E i \in DOMAIN ranges : ranges[i].id = rangeId

(***************************************************************************)
(* C14.  deleteRange, updateRange and toggleRangeEnabled called with an id *)
(* that no range of the Range Set carries return false, throw nothing,     *)
(* write nothing and leave the Range Set as it was; called with the id of  *)
(* a range of the Range Set they return true.                              *)
(***************************************************************************)
C14_UnknownIdFalse ==
    op.name \in ById =>
        IF HasId(op.before, op.id)
        THEN op.returned = "true" /\ ~op.threw
        ELSE /\ op.returned = "false"
             /\ ~op.threw
             /\ ~op.called
             /\ file = op.before /\ disk = op.disk

\* The same, unless the backing file holds JSON that is not an array.
C14_UnknownIdFalseOfArray ==
    op.name \in ById /\ op.disk /= "notArray" =>
        IF HasId(op.before, op.id)
        THEN op.returned = "true" /\ ~op.threw
        ELSE /\ op.returned = "false"
             /\ ~op.threw
             /\ ~op.called
             /\ file = op.before /\ disk = op.disk

\* An operation has run with an id that the non-empty Range Set does not
\* hold, and one with an id that it holds.
C14_UnknownReached ==
    /\ op.name = "deleteRange"
    /\ op.before /= <<>>
    /\ ~HasId(op.before, op.id)
    /\ op.returned = "false"

C14_FoundReached ==
    /\ op.name = "toggleRangeEnabled"
    /\ HasId(op.before, op.id)
    /\ op.returned = "true" /\ op.wrote

(***************************************************************************)
(* C15.  Ids are unique: whatever createRange, addRange and deleteRange    *)
(* did before, no two ranges of the persisted Range Set carry the same id, *)
(* and a new range never gets an id that a range of the Range Set carries  *)
(* or that a deleted range carried.                                        *)
(***************************************************************************)
Created == op.name = "createRangeFromSelection" /\ ~op.threw

C15_IdsUnique ==
    /\ \A i \in DOMAIN file : \A j \in DOMAIN file :
          file[i].id = file[j].id => i = j
    /\ Created => ~HasId(op.read, op.id) /\ op.id \notin retired

\* A range was created, deleted, and a range was created at the same clock
\* reading.
C15_ReusedReached ==
    Created /\ op.wrote /\ op.id \in retired

(***************************************************************************)
(* C16.  readRanges resolves to the empty collection when the backing file *)
(* is absent, empty or blank; when the file holds something that is not a  *)
(* Range Set it shows an error to the user and resolves to the empty       *)
(* collection, and no operation of the store and no change event throws.   *)
(***************************************************************************)
Reads == ById \cup { "createRangeFromSelection", "change" }

C16_MalformedReadsEmpty ==
    op.name \in Reads /\ workspace =>
        /\ op.disk \in { "absent", "empty", "blank" } =>
              op.read = <<>> /\ op.shown = <<>> /\ ~op.threw
        /\ op.disk \in { "garbage", "notArray" } =>
              op.read = <<>> /\ ReadError \in Range(op.shown) /\ ~op.threw

\* The same, with text that is not JSON as the only malformed content.
C16_UnparsableReadsEmpty ==
    op.name \in Reads /\ workspace =>
        /\ op.disk \in { "absent", "empty", "blank" } =>
              op.read = <<>> /\ op.shown = <<>> /\ ~op.threw
        /\ op.disk = "garbage" =>
              op.read = <<>> /\ ReadError \in Range(op.shown) /\ ~op.threw

\* A range was added over a backing file that held text that is not JSON.
C16_UnparsableReached ==
    Created /\ op.disk = "garbage" /\ op.wrote /\ Len(file) = 1

\* A change event threw over a backing file that held JSON, not an array.
C16_ChangeThrewReached ==
    op.name = "change" /\ op.disk = "notArray" /\ op.threw

(***************************************************************************)
(* validateRange, applied to the ranges of a bounded set.  Where the       *)
(* characters of a name matter the name is the sequence of them.           *)
(***************************************************************************)

ValidateInputs ==
    [ id : { "", "1" },
      name : { <<>>, <<" ">>, <<"n">>, <<" ", "n">> },
      filePath : { "", ActiveFile },
      type : { "block", "event" },
      startLine : 0..MaxBatchLines,
      endLine : { Undefined } \cup { Some(n) : n \in 0..MaxBatchLines },
      isEnabled : { TRUE } ]

\* The error pushed when the condition holds.
ErrorIf(condition, message) == IF condition THEN <<message>> ELSE <<>>

validateRange(range) ==
    LET errors ==
            ErrorIf(range.id = "", "Range ID is required")
         \o ErrorIf(range.name = <<>> \/ TrimLength(range.name) = 0,
                    "Range name is required")
         \o ErrorIf(range.filePath = "", "File path is required")
         \o ErrorIf(range.startLine < 1, "Start line must be >= 1")
         \o ErrorIf(/\ range.type = "block"
                    /\ range.endLine /= Undefined
                    /\ range.endLine[1] < range.startLine,
                    "End line must be >= start line")
    IN  [ isValid |-> Len(errors) = 0, errors |-> errors ]

InitValidate ==
    /\ lineCount = 1
    /\ lines = << <<"x">> >>
    /\ file = <<>>
    /\ handlers = <<>>
    /\ last = NoRun
    /\ burst = NoBurst
    /\ workspace = TRUE
    /\ disk = "absent"
    /\ now = 0
    /\ retired = {}
    /\ writable = TRUE
    /\ \E range \in ValidateInputs : op = [ name |-> "input", range |-> range ]

Validate ==
    /\ op.name = "input"
    /\ op' = [ name |-> "validateRange", range |-> op.range,
               result |-> validateRange(op.range) ]
    /\ UNCHANGED <<lineCount, lines, file, handlers, last, burst,
                   workspace, disk, now, retired, writable>>

NextValidate == Validate

SpecValidate == InitValidate /\ [][NextValidate]_vars

(***************************************************************************)
(* C17.  validateRange reports a range valid exactly when its id, name and *)
(* filePath are non-empty, startLine >= 1 and, for a block range, endLine  *)
(* is there and >= startLine; every other range is reported invalid with   *)
(* at least one error.                                                     *)
(***************************************************************************)
Valid(range) ==
    /\ range.id /= ""
    /\ range.name /= <<>>
    /\ range.filePath /= ""
    /\ range.startLine >= 1
    /\ range.type = "block" =>
          range.endLine /= Undefined /\ range.endLine[1] >= range.startLine

C17_ValidExactly ==
    op.name = "validateRange" =>
        /\ op.result.isValid <=> Valid(op.range)
        /\ ~Valid(op.range) => Len(op.result.errors) >= 1

\* What validateRange decides: a name of white space counts as empty, and
\* the end line of a block range is compared only when there is one.
ValidAsCoded(range) ==
    /\ range.id /= ""
    /\ TrimLength(range.name) /= 0
    /\ range.filePath /= ""
    /\ range.startLine >= 1
    /\ range.type = "block" /\ range.endLine /= Undefined =>
          range.endLine[1] >= range.startLine

C17_ValidAsCoded ==
    op.name = "validateRange" =>
        /\ op.result.isValid <=> ValidAsCoded(op.range)
        /\ ~op.result.isValid <=> Len(op.result.errors) >= 1

\* A block range with no endLine was reported valid.
C17_OpenBlockReached ==
    /\ op.name = "validateRange"
    /\ op.range.type = "block" /\ op.range.endLine = Undefined
    /\ op.result.isValid

\* A block range whose endLine is 0 was reported invalid for that alone.
C17_EndLineZeroReached ==
    /\ op.name = "validateRange"
    /\ op.range.type = "block" /\ op.range.endLine = Some(0)
    /\ op.result.errors = <<"End line must be >= start line">>

(***************************************************************************)
(* C18.  Every mutation (addRange, deleteRange, updateRange,               *)
(* toggleRangeEnabled, the adjustment of a change event) works on the      *)
(* Range Set the backing file holds when the operation starts, also when   *)
(* the file was changed from outside just before, and what it writes is    *)
(* computed from that Range Set.                                           *)
(***************************************************************************)
\* The Range Set of the backing file when the operation started.
AtStart ==
    IF workspace /\ op.disk = "array" THEN op.before ELSE <<>>

\* What the operation wrote, as computed from the Range Set `ranges`.
WrittenFrom(ranges) ==
    CASE op.name = "createRangeFromSelection" ->
            /\ Len(file) = Len(ranges) + 1
            /\ SubSeq(file, 1, Len(ranges)) = ranges
            /\ file[Len(file)].id = op.id
      [] op.name = "deleteRange" ->
            file = Filter(ranges, op.id)
      [] op.name \in { "updateRange", "toggleRangeEnabled" } ->
            /\ Len(file) = Len(ranges)
            /\ \A i \in DOMAIN file :
                  i /= Find(ranges, op.id) => file[i] = ranges[i]
            /\ file[Find(ranges, op.id)] /= ranges[Find(ranges, op.id)]
                 \/ op.name = "updateRange"
      [] op.name = "change" ->
            /\ Len(file) = Len(ranges)
            /\ \A i \in DOMAIN file :
                  /\ file[i].id = ranges[i].id
                  /\ file[i].name = ranges[i].name
                  /\ file[i].isEnabled = ranges[i].isEnabled

C18_FreshRead ==
    op.name \in Reads =>
        /\ op.read = AtStart
        /\ op.wrote => WrittenFrom(AtStart)

\* External tooling wrote a range to the backing file, and the operation
\* that followed wrote that range back, disabled.
C18_Witness ==
    /\ op.name = "toggleRangeEnabled"
    /\ op.id = "ext"
    /\ op.wrote
    /\ file = << [ExternalRange EXCEPT !.isEnabled = FALSE] >>

\* A change event moved the range that external tooling wrote.
C18_ChangeReached ==
    /\ op.name = "change"
    /\ op.wrote
    /\ HasId(file, "ext")
    /\ file /= op.before

(***************************************************************************)
(* C19.  A change event that modified some range fires the ranges-changed  *)
(* callback once, and only after the adjusted Range Set has been written.  *)
(***************************************************************************)
Occurrences(steps, step) == { k \in DOMAIN steps : steps[k] = step }

NoFolderErrors ==
    /\ ReadError \in Range(op.shown)
    /\ op.called => WriteError \in Range(op.shown)
    /\ ~op.wrote
    /\ disk = "absent" /\ file = <<>>
    /\ op.name \in ById => op.returned = "false"

C20_NoWorkspaceNoOperation ==
    ~workspace /\ op.name \in Reads =>
        /\ NoFolderErrors
        /\ op.name = "createRangeFromSelection" => ~op.reported

\* The same, leaving out what the command tells the user.
C20_NoWorkspaceNoWrite ==
    ~workspace /\ op.name \in Reads => NoFolderErrors

\* With no folder open the command showed both errors and then told the
\* user that the range was added.
C20_ReportedReached ==
    /\ ~workspace
    /\ Created
    /\ op.shown = <<ReadError, WriteError>>
    /\ op.reported
    /\ file = <<>>

(***************************************************************************)
(* The store on a file system that can refuse to write the backing file.   *)
(***************************************************************************)

\* The file system starts, or stops, refusing writes of the backing file:
\* its permissions change, or the disk fills up and is freed.
SetWritable ==
    /\ writable' = ~writable
    /\ op' = NoOp
    /\ UNCHANGED <<lineCount, lines, file, handlers, last, burst,
                   workspace, disk, now, retired>>

InitFail ==
    /\ lineCount = 1
    /\ lines = << <<"x">> >>
    /\ handlers = <<>>
    /\ last = NoRun
    /\ burst = NoBurst
    /\ workspace = TRUE
    /\ disk = "array"
    /\ file = << RangeFromSelection(generateUniqueId(0), "n", ActiveFile, 0, 0) >>
    /\ now = 0
    /\ op = NoOp
    /\ retired = {}
    /\ writable = TRUE

NextFail ==
    \/ \E rangeId \in ClockIds : deleteRange(rangeId)
    \/ \E rangeId \in ClockIds : \E updates \in Updates : updateRange(rangeId, updates)
    \/ \E rangeId \in ClockIds : toggleRangeEnabled(rangeId)
    \/ ChangeOnStore
    \/ SetWritable

SpecFail == InitFail /\ [][NextFail]_vars

(***************************************************************************)
(* C21.  A write that fails is reported to the user, makes the operation   *)
(* throw nothing and leaves the backing file as it was; the operation goes *)
(* on as if the write had succeeded: deleteRange, updateRange and          *)
(* toggleRangeEnabled return true and the change handler calls the         *)
(* ranges-changed callback.                                                *)
(***************************************************************************)
WriteFailed == op.name \in Reads /\ op.called /\ ~op.wrote

C21_FailedWriteReported ==
    WriteFailed =>
        /\ WriteError \in Range(op.shown)
        /\ ~op.threw
        /\ file = op.before /\ disk = op.disk
        /\ op.name \in ById => op.returned = "true"
        /\ op.name = "change" => op.notified

\* deleteRange found the range, the write failed, the range is still in the
\* backing file and deleteRange returned true.
C21_Witness ==
    /\ WriteFailed
    /\ op.name = "deleteRange"
    /\ HasId(file, op.id)
    /\ op.returned = "true"

\* A change event moved a range, the write failed and the callback fired.
C21_ChangeReached ==
    /\ WriteFailed
    /\ op.name = "change"
    /\ file /= <<>>
    /\ op.notified

(***************************************************************************)
(* The backing file as JSON: what JSON.stringify writes for a Range Set    *)
(* and what JSON.parse makes of it.  A JSON object is the sequence of its  *)
(* members, each a pair of a key and a value.                              *)
(***************************************************************************)

\* The keys of a range, in the order in which createRange sets them.
Keys == << "id", "name", "filePath", "type", "startLine", "endLine", "isEnabled" >>

\* JSON.stringify leaves out a member whose value is undefined.
Defined(range, key) == key = "endLine" => range.endLine /= Undefined

ValueOf(range, key) ==
    IF key = "endLine" THEN range.endLine[1] ELSE range[key]

\* JSON.stringify that writes no endLine at all.
StringifyNoEndLine(range) ==
    LET written == SelectSeq(Keys, LAMBDA key : key /= "endLine")
    IN  [ k \in DOMAIN written |-> << written[k], ValueOf(range, written[k]) >> ]

Stringify(range) ==
    LET written == SelectSeq(Keys, LAMBDA key : Defined(range, key))
    IN  [ k \in DOMAIN written |-> << written[k], ValueOf(range, written[k]) >> ]

\* JSON.stringify(ranges, null, 2)
StringifyRanges(ranges) == [ i \in DOMAIN ranges |-> Stringify(ranges[i]) ]

HasMember(object, key) == \E k \in DOMAIN object : object[k][1] = key

Member(object, key) ==
    object[CHOOSE k \in DOMAIN object : object[k][1] = key][2]

\* JSON.parse of an object, read as a range: a key the object does not have
\* reads as undefined.
Parse(object) ==
    [ id |-> Member(object, "id"),
      name |-> Member(object, "name"),
      filePath |-> Member(object, "filePath"),
      type |-> Member(object, "type"),
      startLine |-> Member(object, "startLine"),
      endLine |-> IF HasMember(object, "endLine")
                  THEN Some(Member(object, "endLine")) ELSE Undefined,
      isEnabled |-> Member(object, "isEnabled") ]

ParseRanges(text) == [ i \in DOMAIN text |-> Parse(text[i]) ]

\* The ranges of a valid Range Set: block ranges with an endLine, event
\* ranges without.
ValidRanges ==
    { [ id |-> id, name |-> "n", filePath |-> filePath, type |-> "block",
        startLine |-> startLine, endLine |-> Some(endLine), isEnabled |-> isEnabled ] :
        id \in { "1", "2" }, filePath \in { ActiveFile, OtherFile },
        startLine \in 1..MaxBatchLines, endLine \in 1..MaxBatchLines,
        isEnabled \in BOOLEAN }
    \cup
    { [ id |-> id, name |-> "n", filePath |-> filePath, type |-> "event",
        startLine |-> startLine, endLine |-> Undefined, isEnabled |-> isEnabled ] :
        id \in { "1", "2" }, filePath \in { ActiveFile, OtherFile },
        startLine \in 1..MaxBatchLines, isEnabled \in BOOLEAN }

ValidRangeSets ==
    { <<>> } \cup { <<r>> : r \in { v \in ValidRanges : WellFormed(v) } }
             \cup { <<r, q>> : r \in { v \in ValidRanges : WellFormed(v) /\ v.id = "1" },
                               q \in { v \in ValidRanges : v.type = "event" /\ v.id = "2" } }

InitRoundTrip ==
    /\ lineCount = 1
    /\ lines = << <<"x">> >>
    /\ handlers = <<>>
    /\ last = NoRun
    /\ burst = NoBurst
    /\ workspace = TRUE
    /\ disk = "array"
    /\ file \in ValidRangeSets
    /\ now = 0
    /\ op = NoOp
    /\ retired = {}
    /\ writable = TRUE

RoundTripRest ==
    <<lineCount, lines, file, handlers, last, burst,
      workspace, disk, now, retired, writable>>

\* writeRanges(S): the text written for the Range Set S.
WriteText ==
    /\ op.name = "none"
    /\ op' = [ name |-> "writeRanges", text |-> StringifyRanges(file) ]
    /\ UNCHANGED RoundTripRest

\* readRanges() of the text written, and the text writeRanges would write
\* for what was read.
ReadText ==
    /\ op.name = "writeRanges"
    /\ op' = [ name |-> "readRanges", text |-> op.text,
               ranges |-> ParseRanges(op.text),
               rewritten |-> StringifyRanges(ParseRanges(op.text)) ]
    /\ UNCHANGED RoundTripRest

NextRoundTrip == WriteText \/ ReadText

SpecRoundTrip == InitRoundTrip /\ [][NextRoundTrip]_vars

(***************************************************************************)
(* C22.  Round trip: for a valid Range Set S, readRanges after             *)
(* writeRanges(S) returns S, every field of every range equal and an       *)
(* absent endLine still absent, and writing what was read writes the same  *)
(* text again.                                                             *)
(***************************************************************************)
C22_RoundTrip ==
    op.name = "readRanges" =>
        /\ op.ranges = file
        /\ \A i \in DOMAIN file :
              file[i].endLine = Undefined <=> ~HasMember(op.text[i], "endLine")
        /\ op.rewritten = op.text

\* A Range Set with a block range and an event range was written and read.
C22_Witness ==
    /\ op.name = "readRanges"
    /\ Len(file) = 2
    /\ file[1].type = "block" /\ file[1].endLine /= Undefined
    /\ file[2].type = "event" /\ file[2].endLine = Undefined
    /\ Len(op.text[1]) = 7 /\ Len(op.text[2]) = 6

(***************************************************************************)
(* A range created from a selection and added to a Range Set that holds    *)
(* ranges already.                                                         *)
(***************************************************************************)

InitAdd ==
    /\ lineCount = 2
    /\ lines = << <<"x">>, <<"x">> >>
    /\ handlers = <<>>
    /\ last = NoRun
    /\ burst = NoBurst
    /\ workspace = TRUE
    /\ disk = "array"
    /\ file \in ValidRangeSets
    /\ now = 0
    /\ op = NoOp
    /\ retired = {}
    /\ writable = TRUE

\* Time passes before the command runs.
TickBefore ==
    /\ op = NoOp
    /\ Tick

\* The command runs once.
CreateOnce ==
    /\ op = NoOp
    /\ createRangeFromSelection

NextAdd == TickBefore \/ CreateOnce

SpecAdd == InitAdd /\ [][NextAdd]_vars

(***************************************************************************)
(* C23.  addRange appends: after addRange(r) the Range Set is the list it  *)
(* was, every range as it was and in the same place, followed by r.  The   *)
(* range created from a selection of the 0-indexed lines s..e is a block   *)
(* range with startLine s + 1, endLine e + 1 and isEnabled true.           *)
(***************************************************************************)
C23_AddAppends ==
    Created /\ op.wrote =>
        /\ Len(file) = Len(op.before) + 1
        /\ \A i \in DOMAIN op.before : file[i] = op.before[i]
        /\ file[Len(file)] =
              [ id |-> op.id, name |-> "n", filePath |-> ActiveFile,
                type |-> "block",
                startLine |-> op.input[1] + 1,
                endLine |-> Some(op.input[2] + 1),
                isEnabled |-> TRUE ]

\* The selection of lines 0..1 was added to a Range Set of two ranges.
C23_Witness ==
    /\ Created /\ op.wrote
    /\ Len(op.before) = 2
    /\ op.input = <<0, 1>>
    /\ file[3].startLine = 1 /\ file[3].endLine = Some(2)

(***************************************************************************)
(* C24.  The at-end rule is for block ranges with endLine > startLine: for *)
(* an event range and for a block range with startLine = endLine an edit   *)
(* on the range's line is decided by the at-start rule.  An event range    *)
(* never gets an endLine, and its startLine changes by netLineChange       *)
(* exactly when the edit starts above it, or on its line at or before the  *)
(* first non-whitespace column.                                            *)
(***************************************************************************)
\* The range is one line long: it has no endLine, or endLine = startLine.
OneLine(range) == ~Truthy(range.endLine) \/ End(range) = range.startLine

IsEvent(range) == range.type = "event" /\ ~HasEnd(range)

\* The edit starts above range i, or on its line before the content.
MovesStart(i) ==
    \/ EditLine < last.before[i].startLine
    \/ /\ EditLine = last.before[i].startLine
       /\ BeforeContent(StartLineRead, TheEdit.character)

Max(a, b) == IF a >= b THEN a ELSE b

C24_BlockReached ==
    /\ last.ran
    /\ last.before[1].type = "block"
    /\ OneLine(last.before[1]) /\ WellFormed(last.before[1])
    /\ EditLine = last.before[1].startLine
    /\ Net = 1
    /\ file[1].startLine = last.before[1].startLine
    /\ file[1].endLine = Some(last.before[1].startLine + 1)

\* Lines deleted from above an event range to below it pushed its startLine
\* against line 1.
C24_ClampReached ==
    /\ last.ran
    /\ IsEvent(last.before[1])
    /\ EditLine < last.before[1].startLine
    /\ last.before[1].startLine + Net < 1
    /\ file[1].startLine = 1

(***************************************************************************)
(* C25.  The Range Set the handler works on holds a disabled range of the  *)
(* active document, a block range or an event range, and an enabled range  *)
(* of another file.                                                        *)
(***************************************************************************)
InitFrame ==
    /\ lineCount \in 1..MaxBatchLines
    /\ lines \in [1..lineCount -> BatchLineTexts]
    /\ \E s \in 0..(lineCount - 1) :
          \/ \E e \in s..(lineCount - 1) :
                file = << [RangeFromSelection("1", "n", ActiveFile, s, e)
                              EXCEPT !.isEnabled = FALSE],
                          EventRange("2", "m", OtherFile, s + 1) >>
          \/ file = << [EventRange("1", "n", ActiveFile, s + 1)
                              EXCEPT !.isEnabled = FALSE],
                       RangeFromSelection("2", "m", OtherFile, s, s) >>
    /\ handlers = <<>>
    /\ last = NoRun
    /\ burst = NoBurst
    /\ StoreIdle

SpecFrame == InitFrame /\ [][NextBatch]_vars

\* The same ranges, every one of them enabled.
Enabled(ranges) == [i \in DOMAIN ranges |-> [ranges[i] EXCEPT !.isEnabled = TRUE]]

SameBoundaries(a, b) == a.startLine = b.startLine /\ a.endLine = b.endLine

\* What the handler of the last event holds at its end when it is given
\* the same ranges, all enabled.
AfterOfEnabled ==
    ProcessEvent(Enabled(last.before),
                 [k \in DOMAIN last.edits |-> ChangeOf(last.edits[k])],
                 last.document, ActiveFile)

\* C25: after a change event the persisted Range Set holds the same ranges
\* in the same order, each with its id, name, filePath, type and isEnabled
\* unchanged, and the boundaries the handler gives a range are those it
\* gives the same range when it is enabled.
C25_BoundariesOnly ==
    last.ran =>
        /\ DOMAIN file = DOMAIN last.before
        /\ \A i \in DOMAIN file :
              /\ file[i].id = last.before[i].id
              /\ file[i].name = last.before[i].name
              /\ file[i].filePath = last.before[i].filePath
              /\ file[i].type = last.before[i].type
              /\ file[i].isEnabled = last.before[i].isEnabled
        /\ ~last.threw =>
              /\ last.wrote = AfterOfEnabled.rangesModified
              /\ \A i \in DOMAIN last.after :
                    SameBoundaries(last.after[i], AfterOfEnabled.ranges[i])

\* A disabled range of the active document was moved by a written
\* adjustment, and is still disabled.
C25_Witness ==
    /\ last.ran
    /\ last.wrote
    /\ \E i \in DOMAIN file :
          /\ ~last.before[i].isEnabled
          /\ last.before[i].filePath = ActiveFile
          /\ ~SameBoundaries(file[i], last.before[i])
          /\ ~file[i].isEnabled

\* A disabled range was held at line 1 by the bounds rule.
C25_ClampReached ==
    /\ last.ran
    /\ last.wrote
    /\ \E i \in DOMAIN file :
          /\ ~last.before[i].isEnabled
          /\ last.before[i].startLine = 1
          /\ file[i].startLine = 1
          /\ AdjustmentFor(last.before[i], ChangeOf(last.edits[1]), last.document).startLineDelta < 0
          /\ last.before[i].filePath = ActiveFile

(***************************************************************************)
(* C26.  A range never jumps over the edit point.                          *)
(***************************************************************************)
\* The edit starts at or above the first line of range i.
EditAtOrAboveStart(i) == EditLine <= last.before[i].startLine

\* C26: for every edit that starts at or above a range's startLine, the
\* range's startLine after the adjustment is not less than the edit's
\* start line, deletions that extend into or past the range included.
C26_NoJumpOverEdit ==
    last.ran => \A i \in DOMAIN last.before :
        EditAtOrAboveStart(i) => file[i].startLine >= EditLine

\* What the code does keep: the range stays at or below the edit's start
\* line when the edit removes no more lines than it adds, and when it
\* starts above the range and ends at or above the range's first line.
C26_NoJumpWhenEditEndsAbove ==
    last.ran => \A i \in DOMAIN last.before :
        /\ EditAtOrAboveStart(i)
        /\ \/ Net >= 0
           \/ EditLine < last.before[i].startLine
                /\ EditEndLine <= last.before[i].startLine
        => file[i].startLine >= EditLine

\* A deletion that starts above the range and ends below its first line
\* has taken the range's startLine above the edit's start line.
C26_JumpFromAboveReached ==
    /\ last.ran
    /\ \E i \in DOMAIN last.before :
          /\ EditLine < last.before[i].startLine
          /\ EditEndLine > last.before[i].startLine
          /\ file[i].startLine < EditLine

\* The same for a deletion that starts on the range's first line.
C26_JumpFromStartReached ==
    /\ last.ran
    /\ \E i \in DOMAIN last.before :
          /\ EditLine = last.before[i].startLine
          /\ file[i].startLine < EditLine

(***************************************************************************)
(* C27.  An edit that starts on the end line of a block range with         *)
(* endLine > startLine never decreases the range's endLine.                *)
(***************************************************************************)
\* C27: after an edit that starts on the end line of a block range the
\* range's endLine is not less than it was; a deletion that begins on the
\* end line and removes only lines after it leaves endLine where it was.
C27_EndLineNotDecreased ==
    last.ran => \A i \in DOMAIN last.before :
        EditAtEnd(i) => HasEnd(file[i]) /\ End(file[i]) >= End(last.before[i])

\* What the code does keep: endLine decreases only for an edit that
\* removes more lines than it adds and leaves non-blank content after its
\* start column on the end line, and then by the net line change, held at
\* startLine unless it has become 0 (C1).
C27_DecreasedOnlyBeforeContent ==
    last.ran => \A i \in DOMAIN last.before :
        EditAtEnd(i) =>
            /\ HasEnd(file[i])
            /\ file[i].startLine = last.before[i].startLine
            /\ End(file[i]) < End(last.before[i]) =>
                  /\ Net < 0
                  /\ ContentAfterColumn(StartLineRead, TheEdit.character)
                  /\ End(file[i]) = IF End(last.before[i]) + Net = 0 THEN 0
                                    ELSE Max(file[i].startLine, End(last.before[i]) + Net)

\* A deletion from the end of the content of a block's end line to the
\* start of the next line, which removes the line break only, has taken
\* endLine one line up.
C27_DecreaseReached ==
    /\ last.ran
    /\ TheEdit.text = <<>>
    /\ TheEdit.endLine = TheEdit.line + 1
    /\ TheEdit.character = Len(TheEdit.startText)
    /\ NonBlank(TheEdit.startText)
    /\ \E i \in DOMAIN last.before :
          EditAtEnd(i) /\ End(file[i]) = End(last.before[i]) - 1

(***************************************************************************)
(* C28.  Store operations while change events are being handled.  The      *)
(* handler of a change event is suspended in readRanges and in writeRanges *)
(* as in SpecConc; a command of the tree view runs deleteRange,            *)
(* updateRange or toggleRangeEnabled on the stored range while a handler   *)
(* is suspended or while none is.                                          *)
(***************************************************************************)
StoredId == "1"

\* The user edits the active document while no handler is running; the
\* handler of the change event runs up to its read of the backing file.
ChangeArrives ==
    /\ handlers = <<>>
    /\ \E line \in 0..(lineCount - 1), text \in {<<>>, <<"\n">>}, character \in {0, 2} :
        \E endLine \in line..(lineCount - 1) :
          \E tail \in (IF endLine = line THEN {Suffix(<<"x", " ">>, character)} ELSE {<<>>}),
             next \in (IF endLine = lineCount - 1 THEN {<<>>} ELSE {<<<<"x">>>>}) :
            LET e == Edit(line, character, endLine, text, <<"x", " ">>, tail, next)
                document == DocumentAfter(lineCount, e)
            IN  /\ document.lineCount <= MaxConcLines
                /\ lineCount' = document.lineCount
                /\ handlers' = << [ pc |-> "read", edit |-> e, document |-> document,
                                    stale |-> FALSE, payload |-> <<>> ] >>
    /\ UNCHANGED <<lines, file, last, burst>>
    /\ UNCHANGED storeVars

NextRace ==
    \/ ChangeArrives
    \/ ReadCompletes
    \/ WriteCompletes
    \/ deleteRange(StoredId)
    \/ \E updates \in Updates : updateRange(StoredId, updates)
    \/ toggleRangeEnabled(StoredId)

SpecRace == InitConc /\ [][NextRace]_vars

\* The last operation of the store was `name`, and it returned true.
Completed(name) == op.name = name /\ op.returned = "true"

\* C28: once deleteRange(id) has returned true no later persisted Range
\* Set holds a range with that id, and a toggleRangeEnabled or a rename
\* that has returned true is not undone, also when a change event of the
\* range's file is handled at the same time.
C28_CompletedNotUndone ==
    /\ \A id \in retired : ~HasId(file, id)
    /\ Completed("toggleRangeEnabled") =>
          /\ HasId(file, op.id)
          /\ \A i \in DOMAIN file : file[i].id = op.id =>
                file[i].isEnabled = ~op.read[Find(op.read, op.id)].isEnabled
    /\ Completed("updateRange") =>
          /\ HasId(file, op.id)
          /\ \A i \in DOMAIN file : file[i].id = op.id => file[i].name = "m"

\* A handler that read the Range Set before deleteRange returned true has
\* written it back after: the deleted range is persisted again.
C28_DeletedIsBackReached ==
    /\ retired /= {}
    /\ \E id \in retired : HasId(file, id)

\* The same for a toggle: the range is enabled again.
C28_ToggleUndoneReached ==
    /\ Completed("toggleRangeEnabled")
    /\ \E i \in DOMAIN file :
          file[i].id = op.id /\ file[i].isEnabled = op.read[Find(op.read, op.id)].isEnabled

(***************************************************************************)
(* C29.  The guard of handleTextDocumentChange.  onDidChangeTextDocument   *)
(* fires for every open document, whichever editor is active and also when *)
(* none is: the handler returns at once unless the event's document is the *)
(* document of the active editor.  `lines` is the text of a.py; the text   *)
(* of b.py is that of one of StoreDocuments.                               *)
(***************************************************************************)
NoEditor == "none"

\* Mutant: the handler without its guard.
handleTextDocumentChangeUnguarded(activeTextEditor, eventPath, edits, document) ==
    LET changes == [k \in DOMAIN edits |-> ChangeOf(edits[k])]
        result == ProcessEvent(file, changes, document, eventPath)
        writes == result.rangesModified /\ ~result.threw
    IN  /\ file' = Persisted(file, result)
        /\ last' = [ ran |-> TRUE, edits |-> edits, document |-> document,
                     before |-> file, after |-> result.ranges,
                     wrote |-> writes, notified |-> writes,
                     threw |-> result.threw, text |-> lines,
                     steps |-> Steps(writes, result.threw),
                     active |-> activeTextEditor, path |-> eventPath ]

\* The handler of a change event of the document `eventPath` while the
\* active editor shows `activeTextEditor`, or while there is none.
handleTextDocumentChange(activeTextEditor, eventPath, edits, document) ==
    IF activeTextEditor = NoEditor \/ eventPath /= activeTextEditor
    THEN /\ file' = file
         /\ last' = [ ran |-> TRUE, edits |-> edits, document |-> document,
                      before |-> file, after |-> file,
                      wrote |-> FALSE, notified |-> FALSE,
                      threw |-> FALSE, text |-> lines, steps |-> <<>>,
                      active |-> activeTextEditor, path |-> eventPath ]
    ELSE LET changes == [k \in DOMAIN edits |-> ChangeOf(edits[k])]
             result == ProcessEvent(file, changes, document, eventPath)
             writes == result.rangesModified /\ ~result.threw
         IN  /\ file' = Persisted(file, result)
             /\ last' = [ ran |-> TRUE, edits |-> edits, document |-> document,
                          before |-> file, after |-> result.ranges,
                          wrote |-> writes, notified |-> writes,
                          threw |-> result.threw, text |-> lines,
                          steps |-> Steps(writes, result.threw),
                          active |-> activeTextEditor, path |-> eventPath ]

\* a.py is edited, in the active editor or, by a command that edits a
\* document no editor shows, with no active editor.
ChangeOfTracked ==
    \E activeTextEditor \in {NoEditor, ActiveFile}, e \in EditsOf(lines) :
        LET doc == Splice(lines, e)
        IN  /\ ~last.ran
            /\ InBatchBounds(doc, ProcessEvent(file, <<ChangeOf(e)>>, TextDocument(doc),
                                               ActiveFile).ranges)
            /\ lineCount' = Len(doc)
            /\ lines' = doc
            /\ handleTextDocumentChange(activeTextEditor, ActiveFile, <<e>>,
                                        TextDocument(doc))
            /\ UNCHANGED <<handlers, burst>>
            /\ UNCHANGED storeVars

\* b.py is edited while the active editor shows a.py, or while there is no
\* active editor.
ChangeElsewhere ==
    \E activeTextEditor \in {NoEditor, ActiveFile}, other \in StoreDocuments :
        \E e \in StoreEdits(other) :
            /\ ~last.ran
            /\ handleTextDocumentChange(activeTextEditor, OtherFile, <<e>>,
                                        TextDocument(Splice(other, e)))
            /\ UNCHANGED <<lineCount, lines, handlers, burst>>
            /\ UNCHANGED storeVars

\* The promise of the handler settles.
Settles ==
    /\ last.ran
    /\ last' = NoRun
    /\ UNCHANGED <<lineCount, lines, file, handlers, burst>>
    /\ UNCHANGED storeVars

NextGuard == ChangeOfTracked \/ ChangeElsewhere \/ Settles

SpecGuard == InitBatch /\ [][NextGuard]_vars

\* The event of the last run did not pass the guard.
NotOfActiveEditor == last.active = NoEditor \/ last.path /= last.active

\* What the handler would do with the event of the last run if it went on
\* past the guard.
PastGuard ==
    ProcessEvent(last.before, [k \in DOMAIN last.edits |-> ChangeOf(last.edits[k])],
                 last.document, last.path)

\* C29: a change event of a document that is not the active editor's, or
\* one that arrives while there is no active editor, changes no persisted
\* range and leads to no write, no ranges-changed callback and no update of
\* the decorations.
C29_OnlyActiveDocument ==
    last.ran /\ NotOfActiveEditor =>
        /\ file = last.before
        /\ ~last.wrote
        /\ ~last.notified
        /\ last.steps = <<>>

\* b.py was edited above a range of b.py while the active editor showed
\* a.py, and nothing was done about it.
C29_Witness ==
    /\ last.ran
    /\ last.path = OtherFile /\ last.active = ActiveFile
    /\ PastGuard.rangesModified
    /\ PastGuard.ranges /= last.before
    /\ file = last.before /\ last.steps = <<>>

\* a.py was edited above its range while there was no active editor.
C29_NoEditorReached ==
    /\ last.ran
    /\ last.path = ActiveFile /\ last.active = NoEditor
    /\ PastGuard.rangesModified
    /\ file = last.before /\ last.steps = <<>>

\* An event of the active editor's document passed the guard and moved a
\* range.
C29_PassedReached ==
    /\ last.ran
    /\ ~NotOfActiveEditor
    /\ last.wrote /\ file /= last.before

(***************************************************************************)
(* C30.  toggleRangeEnabled on Range Sets of one and of two ranges, every  *)
(* range enabled as createRange makes it; two ranges of one Range Set may  *)
(* have one and the same id (C15).                                         *)
(***************************************************************************)
ToggleSets ==
    { s \in ValidRangeSets : \A i \in DOMAIN s : s[i].isEnabled }
        \cup { <<r, [r EXCEPT !.name = "m"]>> :
                  r \in { v \in ValidRanges : WellFormed(v) /\ v.isEnabled } }

InitToggle ==
    /\ lineCount = 1
    /\ lines = << <<"x">> >>
    /\ handlers = <<>>
    /\ last = NoRun
    /\ burst = NoBurst
    /\ workspace = TRUE
    /\ disk = "array"
    /\ file \in ToggleSets
    /\ now = 0
    /\ op = NoOp
    /\ retired = {}
    /\ writable = TRUE

NextToggle == \E rangeId \in { "1", "2" } : toggleRangeEnabled(rangeId)

SpecToggle == InitToggle /\ [][NextToggle]_vars

\* The Range Set `ranges` with isEnabled of its first range of that id
\* flipped.
Flipped(ranges, rangeId) ==
    [ i \in DOMAIN ranges |->
        IF i = Find(ranges, rangeId)
        THEN [ ranges[i] EXCEPT !.isEnabled = ~ranges[i].isEnabled ]
        ELSE ranges[i] ]

\* C30: toggleRangeEnabled(id) on an existing id flips isEnabled of the
\* range with that id, the first one if there are several, and changes
\* nothing else of the Range Set; toggleRangeEnabled(id) right after it
\* leaves the persisted Range Set as it was before the two.
C30_ToggleFlips ==
    /\ [](Completed("toggleRangeEnabled") =>
            /\ HasId(op.before, op.id)
            /\ op.wrote
            /\ file = Flipped(op.before, op.id))
    /\ [][ Completed("toggleRangeEnabled")
             /\ op'.name = "toggleRangeEnabled" /\ op'.id = op.id
             => file' = op.before ]_vars

\* The second range of a Range Set of two was disabled and enabled again:
\* the Range Set is as it was created.
C30_Witness ==
    /\ Completed("toggleRangeEnabled")
    /\ Len(file) = 2
    /\ Find(op.before, op.id) = 2
    /\ ~op.before[2].isEnabled
    /\ file \in ToggleSets

\* Of two ranges with one id the first was flipped.
C30_SameIdReached ==
    /\ Completed("toggleRangeEnabled")
    /\ Len(file) = 2
    /\ file[1].id = file[2].id
    /\ file[1].isEnabled /= op.before[1].isEnabled
    /\ file[2] = op.before[2]

\* An id that no range has: false, and nothing written.
C30_UnknownReached ==
    /\ op.name = "toggleRangeEnabled"
    /\ op.returned = "false"
    /\ file /= <<>>

=============================================================================
